---- MODULE Spec2Model ----
(***************************************************************************)
(* Model of the gesture-driven Christmas-tree scene (nofacer3/shendanshu). *)
(*                                                                         *)
(* State: App's React state (appState, handState, photos), Scene's state   *)
(* (activeIndex, lastSwitchTime, the orbit controls' autoRotate), the      *)
(* render clock, and the particle data with the live instance positions.   *)
(*                                                                         *)
(* Units.  Reals are kept in fixed point: times and hand rotations are in  *)
(* tenths (0.8 s = 8, 0.4 rad = 4).                                        *)
(*                                                                         *)
(* Scheduling.  React runs a passive effect after a render whose           *)
(* dependencies changed; effectPending says that such a run is due.  The   *)
(* render loop advances the clock and calls every useFrame callback; the   *)
(* callbacks write disjoint state, so Spec follows Scene's callback and    *)
(* SpecParticles follows the Particles callback.                           *)
(***************************************************************************)
EXTENDS Integers, Sequences, FiniteSets

VARIABLES
    appState,        \* App: useState<AppState>
    handState,       \* App: useState<HandControlState>
    photos,          \* App: useState<PhotoData[]>, the ids in upload order
    activeIndex,     \* Scene: useState<number>
    lastSwitchTime,  \* Scene: useRef<number>, tenths of a second
    time,            \* state.clock.elapsedTime, tenths of a second
    autoRotate,      \* controlsRef.current.autoRotate
    cameraDrive,     \* observation: the camera angles the latest step eased
                     \* toward the hand position: "azimuth" or "orbit" in a
                     \* Scene frame that did, "none" otherwise
    effectPending,   \* the gesture effect is due (a dependency changed)
    evalFrom,        \* observation: the mode the gesture effect saw, when
                     \* the latest step was an evaluation of it, else "none"
    particles,       \* Scene: useState(() => generateParticles())
    livePos,         \* the instance matrices' positions, per particle
    resolved,        \* observation: mode and targets of the latest
                     \* Particles frame, NoResolve before the first one
    slots,           \* PolaroidFrame: randomPos and treePos of each mounted
                     \* panel (the useMemo values)
    panelLive,       \* PolaroidFrame: meshRef's position and scale, per panel
    panelTargets,    \* observation: the targets of the latest panel frame
    results,         \* the latest vision result of hands.send, NoResults
                     \* before the first one
    active,          \* HandController: the effect's active flag
    delivered,       \* whether hands.onResults has been called with results
    stream,          \* the camera: getUserMedia "pending" or "failed", the
                     \* acquired stream "live" or with its tracks "stopped"
    cameraReady,     \* HandController: isCameraReady
    loop,            \* the prediction loop: "idle" before it starts,
                     \* "scheduled" (a predict frame is requested), "sending"
                     \* (hands.send is in flight), "resolving" (its result
                     \* has arrived) or "stopped"
    generated,       \* generateParticles: configured count, returned count
                     \* and one of the returned particles
    orbit,           \* OrbitControls: azimuthal and polar angle of the
                     \* camera, in thousandths of a radian
    starScale        \* StarShape: the uniform scale of the star's mesh, in
                     \* thousandths

vars == <<appState, handState, photos, activeIndex, lastSwitchTime, time,
          autoRotate, cameraDrive, effectPending, evalFrom, particles,
          livePos, resolved, slots, panelLive, panelTargets, results, active,
          delivered, stream, cameraReady, loop, generated, orbit, starScale>>

sceneVars == <<appState, handState, photos, activeIndex, lastSwitchTime, time,
               autoRotate, cameraDrive, effectPending, evalFrom>>

particleVars == <<particles, livePos, resolved>>

panelVars == <<slots, panelLive, panelTargets>>

controllerVars == <<results, active, delivered>>

cameraVars == <<stream, cameraReady, loop>>

easeVars == <<orbit, starScale>>

\* What Scene, App and the gesture effect leave alone.
sceneRest ==
    <<particleVars, panelVars, controllerVars, cameraVars, generated, easeVars>>

(***************************************************************************)
(* Bounds of the model.                                                    *)
(***************************************************************************)
MaxPhotos == 3
MaxFiles == 2
MaxTime == 19
MaxDelta == 2
MaxStep == 4
NumParticles == 1

(***************************************************************************)
(* types.ts                                                                *)
(***************************************************************************)
AppStates == {"ASSEMBLED", "SCATTERED", "FOCUSED"}

GestureTypes == {"NONE", "FIST", "OPEN_PALM", "PINCH"}

\* Hand rotations in tenths of a radian: both sides of +-0.4 and the bounds.
Rotations == {-5, -4, 0, 4, 5}

\* Hand positions in hundredths: the centre and a corner of [-1, 1]^2.
Positions == {[x |-> 0, y |-> 0], [x |-> 100, y |-> -100]}

HandControlStates ==
    [gesture : GestureTypes, position : Positions, rotation : Rotations]

Deltas == 1..MaxDelta

\* Frame times of the particles' and the panels' frames, in tenths of a second.
Steps == 1..MaxStep

(***************************************************************************)
(* Scene: the gesture logic handler (useEffect).                           *)
(***************************************************************************)
\* The value of the setAppState calls of one run of the effect (the last
\* call wins), or the mode itself when the run makes no call.  Both tests of
\* appState read the value the effect was rendered with.
NoFistFromFocus(gesture, mode, panels) ==
    LET first ==
            IF gesture = "FIST" /\ mode # "FOCUSED" THEN "ASSEMBLED"
            ELSE IF gesture = "OPEN_PALM"
                 THEN IF mode # "SCATTERED" /\ mode # "FOCUSED"
                      THEN "SCATTERED" ELSE mode
            ELSE IF gesture = "PINCH"
                 THEN IF mode = "SCATTERED" /\ panels > 0
                      THEN "FOCUSED" ELSE mode
            ELSE mode
    IN  IF gesture = "OPEN_PALM" /\ mode = "FOCUSED" THEN "SCATTERED" ELSE first

NoPalmExit(gesture, mode, panels) ==
    IF gesture = "FIST" THEN "ASSEMBLED"
    ELSE IF gesture = "OPEN_PALM"
         THEN IF mode # "SCATTERED" /\ mode # "FOCUSED"
              THEN "SCATTERED" ELSE mode
    ELSE IF gesture = "PINCH"
         THEN IF mode = "SCATTERED" /\ panels > 0
              THEN "FOCUSED" ELSE mode
    ELSE mode

PinchNeedsTwo(gesture, mode, panels) ==
    LET first ==
            IF gesture = "FIST" THEN "ASSEMBLED"
            ELSE IF gesture = "OPEN_PALM"
                 THEN IF mode # "SCATTERED" /\ mode # "FOCUSED"
                      THEN "SCATTERED" ELSE mode
            ELSE IF gesture = "PINCH"
                 THEN IF mode = "SCATTERED" /\ panels > 1
                      THEN "FOCUSED" ELSE mode
            ELSE mode
    IN  IF gesture = "OPEN_PALM" /\ mode = "FOCUSED" THEN "SCATTERED" ELSE first

PinchWithoutPanels(gesture, mode, panels) ==
    LET first ==
            IF gesture = "FIST" THEN "ASSEMBLED"
            ELSE IF gesture = "OPEN_PALM"
                 THEN IF mode # "SCATTERED" /\ mode # "FOCUSED"
                      THEN "SCATTERED" ELSE mode
            ELSE IF gesture = "PINCH"
                 THEN IF mode = "SCATTERED" THEN "FOCUSED" ELSE mode
            ELSE mode
    IN  IF gesture = "OPEN_PALM" /\ mode = "FOCUSED" THEN "SCATTERED" ELSE first

NoneAssembles(gesture, mode, panels) ==
    LET first ==
            IF gesture = "FIST" \/ gesture = "NONE" THEN "ASSEMBLED"
            ELSE IF gesture = "OPEN_PALM"
                 THEN IF mode # "SCATTERED" /\ mode # "FOCUSED"
                      THEN "SCATTERED" ELSE mode
            ELSE IF gesture = "PINCH"
                 THEN IF mode = "SCATTERED" /\ panels > 0
                      THEN "FOCUSED" ELSE mode
            ELSE mode
    IN  IF gesture = "OPEN_PALM" /\ mode = "FOCUSED" THEN "SCATTERED" ELSE first

PalmOnlyFromFocus(gesture, mode, panels) ==
    LET first ==
            IF gesture = "FIST" THEN "ASSEMBLED"
            ELSE IF gesture = "PINCH"
                 THEN IF mode = "SCATTERED" /\ panels > 0
                      THEN "FOCUSED" ELSE mode
            ELSE mode
    IN  IF gesture = "OPEN_PALM" /\ mode = "FOCUSED" THEN "SCATTERED" ELSE first

PinchFromAnyMode(gesture, mode, panels) ==
    LET first ==
            IF gesture = "FIST" THEN "ASSEMBLED"
            ELSE IF gesture = "OPEN_PALM"
                 THEN IF mode # "SCATTERED" /\ mode # "FOCUSED"
                      THEN "SCATTERED" ELSE mode
            ELSE IF gesture = "PINCH"
                 THEN IF panels > 0 THEN "FOCUSED" ELSE mode
            ELSE mode
    IN  IF gesture = "OPEN_PALM" /\ mode = "FOCUSED" THEN "SCATTERED" ELSE first

PinchToggles(gesture, mode, panels) ==
    LET first ==
            IF gesture = "FIST" THEN "ASSEMBLED"
            ELSE IF gesture = "OPEN_PALM"
                 THEN IF mode # "SCATTERED" /\ mode # "FOCUSED"
                      THEN "SCATTERED" ELSE mode
            ELSE IF gesture = "PINCH"
                 THEN IF mode = "SCATTERED" /\ panels > 0 THEN "FOCUSED"
                      ELSE IF mode = "FOCUSED" THEN "SCATTERED" ELSE mode
            ELSE mode
    IN  IF gesture = "OPEN_PALM" /\ mode = "FOCUSED" THEN "SCATTERED" ELSE first

NextAppState(gesture, mode, panels) ==
    LET first ==
            IF gesture = "FIST" THEN "ASSEMBLED"
            ELSE IF gesture = "OPEN_PALM"
                 THEN IF mode # "SCATTERED" /\ mode # "FOCUSED"
                      THEN "SCATTERED" ELSE mode
            ELSE IF gesture = "PINCH"
                 THEN IF mode = "SCATTERED" /\ panels > 0
                      THEN "FOCUSED" ELSE mode
            ELSE mode
    IN  IF gesture = "OPEN_PALM" /\ mode = "FOCUSED" THEN "SCATTERED" ELSE first

\* One run of the effect.  A changed appState re-renders Scene and, being a
\* dependency, makes the effect due again.
GestureEffect ==
    /\ effectPending
    /\ appState' = NextAppState(handState.gesture, appState, Len(photos))
    /\ effectPending' = (appState' # appState)
    /\ evalFrom' = appState
    /\ UNCHANGED <<handState, photos, activeIndex, lastSwitchTime, time,
                   autoRotate>>
    /\ cameraDrive' = "none"

(***************************************************************************)
(* App: handleHandUpdate and handleFileUpload.                             *)
(***************************************************************************)
\* onUpdate -> setHandState(newState); the effect depends on the gesture only.
HandUpdate(newState) ==
    /\ handState' = newState
    /\ effectPending' = (effectPending \/ newState.gesture # handState.gesture)
    /\ evalFrom' = "none"
    /\ UNCHANGED <<appState, photos, activeIndex, lastSwitchTime, time,
                   autoRotate>>
    /\ cameraDrive' = "none"

RECURSIVE Append_n(_, _)
\* [...prev, {id, url, aspectRatio: 1}] once per file; ids are fresh.
Append_n(prev, n) ==
    IF n = 0 THEN prev ELSE Append_n(Append(prev, Len(prev) + 1), n - 1)

handleFileUpload(files) ==
    /\ Len(photos) + files <= MaxPhotos
    /\ photos' = Append_n(photos, files)
    /\ effectPending' = (effectPending \/ files > 0)
    /\ evalFrom' = "none"
    /\ UNCHANGED <<appState, handState, activeIndex, lastSwitchTime, time,
                   autoRotate>>
    /\ cameraDrive' = "none"

(***************************************************************************)
(* Scene: useFrame, photo switching and camera motion.                     *)
(***************************************************************************)
COOLDOWN == 8

THRESHOLD == 4

\* JavaScript's %: the remainder takes the sign of the dividend.
JsRem(a, n) == IF a >= 0 THEN a % n ELSE -((-a) % n)

\* if (appState === FOCUSED && photos.length > 1) if (time - last > 0.8)
IgnoresMode(mode, n, now, last) == n > 1 /\ now - last > COOLDOWN

NoCooldown(mode, n, now, last) == mode = "FOCUSED" /\ n > 1

CarouselEligible(mode, n, now, last) ==
    mode = "FOCUSED" /\ n > 1 /\ now - last > COOLDOWN

\* The functional updates handed to setActiveIndex.
NoWrap(prev, n, rot) ==
    IF rot < -THRESHOLD THEN prev - 1
    ELSE IF rot > THRESHOLD THEN prev + 1
    ELSE prev

Reversed(prev, n, rot) ==
    IF rot < -THRESHOLD THEN JsRem(prev + 1, n)
    ELSE IF rot > THRESHOLD THEN JsRem(prev - 1 + n, n)
    ELSE prev

NextIndex(prev, n, rot) ==
    IF rot < -THRESHOLD THEN JsRem(prev - 1 + n, n)
    ELSE IF rot > THRESHOLD THEN JsRem(prev + 1, n)
    ELSE prev

Switches(rot) == rot < -THRESHOLD \/ rot > THRESHOLD

\* controlsRef.current.autoRotate after the camera branch of the frame.
FocusKeepsAutoRotate(mode, gesture, current) ==
    IF mode = "SCATTERED" \/ mode = "FOCUSED" THEN current
    ELSE gesture = "NONE"

NextAutoRotate(mode, gesture, current) ==
    IF mode = "SCATTERED" THEN current
    ELSE IF mode = "ASSEMBLED" THEN gesture = "NONE"
    ELSE FALSE

\* The setAzimuthalAngle / setPolarAngle calls of the frame: SCATTERED eases
\* both angles toward the hand position, ASSEMBLED the azimuth while a hand
\* is active, FOCUSED neither.
CameraDrive(mode, gesture) ==
    IF mode = "SCATTERED" THEN "orbit"
    ELSE IF mode = "ASSEMBLED" /\ gesture # "NONE" THEN "azimuth"
    ELSE "none"

\* One frame of Scene's callback; the clock has advanced by delta.
SceneFrame(delta) ==
    LET now == time + delta
        n == Len(photos)
        eligible == CarouselEligible(appState, n, now, lastSwitchTime)
    IN  /\ now <= MaxTime
        /\ time' = now
        /\ activeIndex' = IF eligible
                          THEN NextIndex(activeIndex, n, handState.rotation)
                          ELSE activeIndex
        /\ lastSwitchTime' = IF eligible /\ Switches(handState.rotation)
                             THEN now ELSE lastSwitchTime
        /\ autoRotate' = NextAutoRotate(appState, handState.gesture, autoRotate)
        /\ cameraDrive' = CameraDrive(appState, handState.gesture)
        /\ evalFrom' = "none"
        /\ UNCHANGED <<appState, handState, photos, effectPending>>

(***************************************************************************)
(* utils/geometry and Particles.                                           *)
(***************************************************************************)
\* Stand-ins for generateParticles' random draws: a tree position inside the
\* tree, a scatter position inside the scatter cube, one per mesh type.
ParticleSet ==
    { [type |-> "SPHERE", initialPos |-> <<2, -5, 0>>, scatterPos |-> <<-11, 11, 0>>],
      [type |-> "CUBE",   initialPos |-> <<0, 5, 1>>,  scatterPos |-> <<4, -3, -6>>],
      [type |-> "LIGHT",  initialPos |-> <<-1, 0, 3>>, scatterPos |-> <<9, 7, 10>>] }

Datasets == [1..NumParticles -> ParticleSet]

FocusedKeepsTree(particle, state) ==
    IF state = "SCATTERED" THEN particle.scatterPos ELSE particle.initialPos

getTargetPosition(particle, state) ==
    IF state = "SCATTERED" \/ state = "FOCUSED"
    THEN particle.scatterPos
    ELSE particle.initialPos

\* Integer part of a / n, toward zero.
Trunc(a, n) == IF a >= 0 THEN a \div n ELSE -((-a) \div n)

\* Vector3.lerp with alpha = rate * delta, delta in tenths of a second: the
\* increment (b - a) * alpha is cut to an integer toward zero, so the step of
\* the model is never longer than the step of the code.
LerpScalar(a, b, rate, delta) == a + Trunc((b - a) * rate * delta, 10)

LerpVec(v, w, rate, delta) ==
    [k \in DOMAIN v |-> LerpScalar(v[k], w[k], rate, delta)]

NoResolve == [mode |-> "none", targets |-> <<>>]

\* One frame of the Particles callback: each of the three meshes' loops
\* resolves its particles' targets and eases the instance positions.
ParticlesFrame(delta) ==
    LET target == [i \in DOMAIN particles |->
                      getTargetPosition(particles[i], appState)]
    IN  /\ livePos' = [i \in DOMAIN particles |->
                          LerpVec(livePos[i], target[i], 3, delta)]
        /\ resolved' = [mode |-> appState, targets |-> target]
        /\ evalFrom' = "none"
        /\ UNCHANGED <<appState, handState, photos, activeIndex,
                       lastSwitchTime, time, autoRotate, effectPending,
                       particles>>
        /\ cameraDrive' = "none"

(***************************************************************************)
(* HandController: detectGesture and hands.onResults.                      *)
(* Landmark coordinates are in hundredths of the normalised image, so the  *)
(* distance tests are decided exactly on squared distances.                *)
(***************************************************************************)
SqDist(p1, p2) == (p1.x - p2.x) * (p1.x - p2.x) + (p1.y - p2.y) * (p1.y - p2.y)

\* Math.hypot(thumbTip - indexTip) < 0.05
PinchClose(thumbTip, indexTip) == SqDist(thumbTip, indexTip) < 25

\* dist(tip, wrist) > dist(pip, wrist) + 0.05, with a = dist(tip, wrist)^2
\* and b = dist(pip, wrist)^2:  sqrt(a) > sqrt(b) + 5  iff
\* a - b - 25 > 10 * sqrt(b)  iff  a - b - 25 > 0 and (a - b - 25)^2 > 100 b.
IsExtended(tip, pip, wrist) ==
    LET a == SqDist(tip, wrist)
        b == SqDist(pip, wrist)
    IN  a - b - 25 > 0 /\ (a - b - 25) * (a - b - 25) > 100 * b

ExtendedCount(landmarks) ==
    Cardinality({f \in {8, 12, 16, 20} :
                    IsExtended(landmarks[f], landmarks[f - 2], landmarks[0])})

PinchLast(landmarks) ==
    IF ExtendedCount(landmarks) >= 3 THEN "OPEN_PALM"
    ELSE IF ExtendedCount(landmarks) <= 1 THEN "FIST"
    ELSE IF PinchClose(landmarks[4], landmarks[8]) THEN "PINCH"
    ELSE "NONE"

TwoIsFist(landmarks) ==
    IF PinchClose(landmarks[4], landmarks[8]) THEN "PINCH"
    ELSE IF ExtendedCount(landmarks) >= 3 THEN "OPEN_PALM"
    ELSE IF ExtendedCount(landmarks) <= 2 THEN "FIST"
    ELSE "NONE"

detectGesture(landmarks) ==
    IF PinchClose(landmarks[4], landmarks[8]) THEN "PINCH"
    ELSE IF ExtendedCount(landmarks) >= 3 THEN "OPEN_PALM"
    ELSE IF ExtendedCount(landmarks) <= 1 THEN "FIST"
    ELSE "NONE"

\* tan(k/10 - 0.05) * 10000 for k = 1..16: atan(n/d), rounded to tenths of a
\* radian, is the number of these bounds that n/d reaches (pi/2 rounds to 16).
TanBounds ==
    <<500, 1511, 2553, 3650, 4831, 6131, 7602, 9316, 11383, 13984, 17433,
      22345, 30096, 44552, 82381, 480785>>

Abs(a) == IF a < 0 THEN -a ELSE a

\* Math.atan2(dy, adx) for adx >= 0, in tenths of a radian; atan2(0, 0) = 0.
Atan2Tenths(dy, adx) ==
    LET magnitude ==
            IF dy = 0 THEN 0
            ELSE IF adx = 0 THEN 16
            ELSE Cardinality({k \in DOMAIN TanBounds :
                                 Abs(dy) * 10000 >= TanBounds[k] * adx})
    IN  IF dy < 0 THEN -magnitude ELSE magnitude

\* The roll of the hand: the vector from index MCP (5) to pinky MCP (17).
HandRotation(landmarks) ==
    LET dx == landmarks[17].x - landmarks[5].x
        dy == landmarks[17].y - landmarks[5].y
        isRightHand == dx > 0
        rawAngle == Atan2Tenths(dy, Abs(dx))
    IN  IF isRightHand THEN rawAngle ELSE -rawAngle

\* The pose onResults hands to onUpdate for a detected hand.
HandPose(landmarks) ==
    [gesture |-> detectGesture(landmarks),
     position |-> [x |-> (100 - landmarks[9].x) * 2 - 100,
                   y |-> (100 - landmarks[9].y) * 2 - 100],
     rotation |-> HandRotation(landmarks)]

NoHand == [gesture |-> "NONE", position |-> [x |-> 0, y |-> 0], rotation |-> 0]

\* results.multiHandLandmarks && results.multiHandLandmarks.length > 0
HasHand(res) == res.kind = "list" /\ Len(res.hands) > 0

NoHandIsFist(res) ==
    IF HasHand(res) THEN HandPose(res.hands[1])
    ELSE [NoHand EXCEPT !.gesture = "FIST"]

EmittedPose(res) ==
    IF HasHand(res) THEN HandPose(res.hands[1]) ELSE NoHand

NoResults == [kind |-> "none", hands |-> <<>>]

\* Sample hands.  The wrist is at the bottom; every finger has its PIP joint
\* about 30 above the wrist and a tip that is curled or stretched, the middle
\* finger also one at exactly the margin and one just beyond it; the thumb
\* tip lies on the index tip, just inside, exactly at or far beyond the pinch
\* distance.
Pt(px, py) == [x |-> px, y |-> py]

Wrist == Pt(50, 90)

Fingers == {8, 12, 16, 20}

CurledTip(f) ==
    IF f = 8 THEN Pt(40, 72)
    ELSE IF f = 12 THEN Pt(50, 72)
    ELSE IF f = 16 THEN Pt(60, 72)
    ELSE Pt(68, 75)

StretchedTip(f) ==
    IF f = 8 THEN Pt(38, 30)
    ELSE IF f = 12 THEN Pt(50, 54)
    ELSE IF f = 16 THEN Pt(62, 32)
    ELSE Pt(72, 40)

TipChoices(f) ==
    {CurledTip(f), StretchedTip(f)} \cup (IF f = 12 THEN {Pt(50, 55)} ELSE {})

PipOf(f) ==
    IF f = 8 THEN Pt(40, 61)
    ELSE IF f = 12 THEN Pt(50, 60)
    ELSE IF f = 16 THEN Pt(60, 61)
    ELSE Pt(68, 64)

ThumbOffsets == {Pt(0, 0), Pt(3, 3), Pt(3, 4), Pt(-30, 20)}

PinkyMcpOffsets == {Pt(dx, dy) : dx \in {-20, 0, 20}, dy \in {-10, 0, 10}}

PalmChoices == {Pt(50, 50), Pt(0, 100)}

IndexMcp == Pt(42, 75)

MakeHand(tips, thumb, pinkyMcp, palm) ==
    [l \in 0..20 |->
        IF l = 0 THEN Wrist
        ELSE IF l = 4 THEN Pt(tips[8].x + thumb.x, tips[8].y + thumb.y)
        ELSE IF l \in Fingers THEN tips[l]
        ELSE IF l + 2 \in Fingers THEN PipOf(l + 2)
        ELSE IF l = 9 THEN palm
        ELSE IF l = 5 THEN IndexMcp
        ELSE IF l = 17 THEN Pt(IndexMcp.x + pinkyMcp.x, IndexMcp.y + pinkyMcp.y)
        ELSE Wrist]

TipAssignments ==
    {tips \in [Fingers -> UNION {TipChoices(f) : f \in Fingers}] :
        \A f \in Fingers : tips[f] \in TipChoices(f)}

\* Every finger and thumb configuration with the hand level at the centre,
\* and every roll and palm position of the open and of the pinching hand.
SampleHands ==
    {MakeHand(tips, thumb, Pt(20, 0), Pt(50, 50)) :
        tips \in TipAssignments, thumb \in ThumbOffsets}
    \cup {MakeHand([f \in Fingers |-> StretchedTip(f)], thumb, pinkyMcp, palm) :
            thumb \in {Pt(0, 0), Pt(-30, 20)}, pinkyMcp \in PinkyMcpOffsets,
            palm \in PalmChoices}

\* What the vision model reports for a frame: no landmark list at all, an
\* empty list, or one hand (maxNumHands is 1).
VisionResults ==
    {[kind |-> "missing", hands |-> <<>>], [kind |-> "list", hands |-> <<>>]}
        \cup {[kind |-> "list", hands |-> <<h>>] : h \in SampleHands}

\* hands.send resolves for a frame with a new result.
Detect(res) ==
    /\ delivered
    /\ results' = res
    /\ delivered' = FALSE
    /\ UNCHANGED <<sceneVars, active>>

\* hands.onResults: nothing after teardown, otherwise the pose is handed to
\* onUpdate.
onResults ==
    /\ ~delivered
    /\ delivered' = TRUE
    /\ IF active
       THEN HandUpdate(EmittedPose(results))
       ELSE UNCHANGED sceneVars
    /\ UNCHANGED <<results, active>>

\* The camera effect after mount: getUserMedia is pending.
CameraInit ==
    /\ stream = "pending"
    /\ cameraReady = FALSE
    /\ loop = "idle"

\* getUserMedia resolves: the closure's stream variable is assigned.  Nothing
\* else happens once the view is gone (videoRef.current is null).
CameraGranted ==
    /\ stream = "pending"
    /\ stream' = "live"
    /\ UNCHANGED <<sceneVars, controllerVars, cameraReady, loop>>

\* getUserMedia rejects: the error is shown.
CameraDenied ==
    /\ stream = "pending"
    /\ stream' = "failed"
    /\ UNCHANGED <<sceneVars, controllerVars, cameraReady, loop>>

\* onloadedmetadata of the mounted video: isCameraReady becomes true, and the
\* prediction effect it triggers requests the first predict frame.
MetadataLoaded ==
    /\ active
    /\ stream = "live"
    /\ ~cameraReady
    /\ cameraReady' = TRUE
    /\ loop' = "scheduled"
    /\ UNCHANGED <<sceneVars, controllerVars, stream>>

\* A requested predict frame runs.  With the video mounted and playing it
\* awaits hands.send; with the view gone (videoRef.current is null) it skips
\* the send and requests the next frame at once.
PredictFrame ==
    /\ loop = "scheduled"
    /\ loop' = IF active THEN "sending" ELSE "scheduled"
    /\ UNCHANGED <<sceneVars, controllerVars, stream, cameraReady>>

\* The send that is in flight ends.  The promise resolves, and predict
\* requests the next frame, or, the model having been closed, it may reject,
\* which ends predict.
SendSettles ==
    /\ loop = "resolving"
    /\ delivered
    /\ \/ loop' = "scheduled"
       \/ ~active /\ loop' = "stopped"
    /\ UNCHANGED <<sceneVars, controllerVars, stream, cameraReady>>

\* The cleanups of the three effects when the view is torn down: the active
\* flag is cleared and the model closed; the stream's tracks are stopped if
\* the closure's stream variable is set; the frame whose id requestRef holds
\* is cancelled, which stops the loop only if that frame has not run yet.
Teardown ==
    /\ active
    /\ active' = FALSE
    /\ stream' = IF stream = "live" THEN "stopped" ELSE stream
    /\ loop' = IF loop = "scheduled" THEN "stopped" ELSE loop
    /\ UNCHANGED <<sceneVars, results, delivered, cameraReady>>

ControllerInit ==
    /\ results = NoResults
    /\ active = TRUE
    /\ delivered = TRUE

(***************************************************************************)
(* PhotoCloud and PolaroidFrame.                                           *)
(* A panel's position is followed on its vertical coordinate, in units of  *)
(* 1/300; x and z go through the same selection and the same easing.  The  *)
(* spiral parameter t is in units of 1/3000 and scales are in hundredths.  *)
(***************************************************************************)
MaxPanels == 2

\* The clock time up to which the panels' frames are followed, in tenths.
MaxPanelTime == 2

TREE_HEIGHT == 10

SCATTER_BOUNDS == 22

\* (Math.random() - 0.5) for the draws 0, 1/2 and 3/4, in hundredths.
CentredDraws == {-50, 0, 25}

\* randomPos.y = (Math.random() - 0.5) * SCATTER_BOUNDS
RandomSlots == {c * SCATTER_BOUNDS * 3 : c \in CentredDraws}

\* (Math.random() - 0.5) * 0.1 in units of 1/3000
Jitters == {c * 3 : c \in CentredDraws}

Clamp(v, lo, hi) == IF v < lo THEN lo ELSE IF v > hi THEN hi ELSE v

\* tRand = clamp(0.15 + (index / total) * 0.7 + jitter, 0.1, 0.9)
TreeT(index, total, jitter) ==
    Clamp(450 + (2100 * index) \div total + jitter, 300, 2700)

\* treePos.y = -height / 2 + tRand * height
TreeY(tRand) == (tRand * TREE_HEIGHT) \div 10 - (TREE_HEIGHT * 300) \div 2

\* Camera poses: position.y in units of 1/300, the y components of the
\* camera's forward and up vectors in thousandths (level, and pitched down).
Cameras ==
    {[positionY |-> 600, forwardY |-> 0, upY |-> 1000],
     [positionY |-> 2400, forwardY |-> -600, upY |-> 800]}

\* camera.position + forward * 5.0 + up * 0.8
CameraAnchorY(cam) ==
    cam.positionY + (cam.forwardY * 1500 + cam.upY * 240) \div 1000

\* The target selection of PolaroidFrame's frame callback.
PanelTarget(isFocused, state, slot, cam) ==
    IF isFocused
    THEN [kind |-> "camera", pos |-> CameraAnchorY(cam), scale |-> 250]
    ELSE IF state = "SCATTERED"
    THEN [kind |-> "random", pos |-> slot.randomPos, scale |-> 100]
    ELSE [kind |-> "tree", pos |-> TreeY(slot.treeT), scale |-> 65]

\* PhotoCloud: isFocused = appState === FOCUSED && index === activeIndex
IsFocusedPanel(state, index, current) == state = "FOCUSED" /\ index = current

NoPanelTargets == [mode |-> "none", active |-> 0, targets |-> <<>>]

\* One frame of every mounted panel's callback, with the camera at cam; the
\* clock has advanced by delta.
PanelsFrame(delta, cam) ==
    LET target == [i \in DOMAIN slots |->
                      PanelTarget(IsFocusedPanel(appState, i - 1, activeIndex),
                                  appState, slots[i], cam)]
    IN  /\ slots # <<>>
        /\ time + delta <= MaxPanelTime
        /\ time' = time + delta
        /\ panelLive' =
              [i \in DOMAIN slots |->
                  [pos |-> LerpScalar(panelLive[i].pos, target[i].pos, 4, delta),
                   scale |-> LerpScalar(panelLive[i].scale, target[i].scale,
                                        4, delta)]]
        /\ panelTargets' = [mode |-> appState, active |-> activeIndex,
                            targets |-> target]
        /\ evalFrom' = "none"
        /\ UNCHANGED <<appState, handState, photos, activeIndex,
                       lastSwitchTime, autoRotate, effectPending, slots>>
        /\ cameraDrive' = "none"

\* The re-render after an upload: total changes for every mounted panel, so
\* each one's treePos memo is recomputed with a fresh draw.
UploadPhoto ==
    /\ Len(photos) < MaxPanels
    /\ handleFileUpload(1)
    /\ \E jitter \in [DOMAIN slots -> Jitters] :
          slots' = [i \in DOMAIN slots |->
                       [slots[i] EXCEPT
                           !.treeT = TreeT(i - 1, Len(photos) + 1, jitter[i])]]
    /\ UNCHANGED <<panelLive, panelTargets>>

\* A panel mounts once useLoader has its texture: the group starts at the
\* origin with scale 1, randomPos and treePos are drawn.
PanelMount ==
    /\ Len(slots) < Len(photos)
    /\ \E r \in RandomSlots, jitter \in Jitters :
          slots' = Append(slots,
                          [randomPos |-> r,
                           treeT |-> TreeT(Len(slots), Len(photos), jitter)])
    /\ panelLive' = Append(panelLive, [pos |-> 0, scale |-> 100])
    /\ evalFrom' = "none"
    /\ UNCHANGED <<appState, handState, photos, activeIndex, lastSwitchTime,
                   time, autoRotate, effectPending, panelTargets>>
    /\ cameraDrive' = "none"

PanelsInit ==
    /\ slots = <<>>
    /\ panelLive = <<>>
    /\ panelTargets = NoPanelTargets

(***************************************************************************)
(* utils/geometry: generateParticles.                                      *)
(* The returned list is followed by its length and by one of its           *)
(* particles, the probe, with the vertical tree coordinate as the exact    *)
(* fraction yNum / yDen.                                                   *)
(***************************************************************************)
PARTICLE_COUNT == 3000

FILLER_COUNT == 1200

\* The values constants.ts may give PARTICLE_COUNT.
ConfiguredCounts == {0, 1, 600, 1199, 1200, 1201, 1800, PARTICLE_COUNT}

\* for (let i = 0; i < n; i++) runs n times, and not at all for n <= 0.
LoopRuns(n) == IF n > 0 THEN n ELSE 0

\* Math.sin(theta) * Math.sin(phi) for theta = 2 pi u, phi = acos(2 v - 1),
\* with u in {0, 1/4, 3/4} and v in {0, 1/2}: -1, 0 or 1.
UnitSines == {-1, 0, 1}

\* Math.cbrt(Math.random()) for the draws 0 and 1/8, in halves.
CubeRootHalves == {0, 1}

\* Math.random() for the draws 0, 1/2 and 3/4, in quarters.
QuarterDraws == {0, 2, 3}

\* Main spiral, particle i of mainCount, in thousandths over mainCount:
\*   yBase = -height / 2 + t * height,   t = i / mainCount
\*   r     = cbrt * lerp(0.9, 0.3, t) * 0.9
\*   yTree = yBase + r * sine * 0.6
MainProbe(i, mainCount, sine, cbrtHalves) ==
    [loop |-> "main", index |-> i,
     yNum |-> TREE_HEIGHT * 1000 * i - TREE_HEIGHT * 500 * mainCount
                + sine * cbrtHalves * (243 * mainCount - 162 * i),
     yDen |-> 1000 * mainCount]

\* Core filler, in thousandths:
\*   heightPos = -height / 2 + t * height
\*   y         = heightPos + (Math.random() - 0.5) * 0.5
FillerProbe(i, tQuarters, randQuarters) ==
    [loop |-> "filler", index |-> i,
     yNum |-> TREE_HEIGHT * 250 * tQuarters - TREE_HEIGHT * 500
                + (randQuarters - 2) * 125,
     yDen |-> 1000]

ProbeIndices(n) == {i \in {0, n \div 2, n - 1} : 0 <= i /\ i < n}

Probes(config) ==
    LET mainCount == config - FILLER_COUNT
    IN  {MainProbe(i, mainCount, sine, c) :
            i \in ProbeIndices(mainCount), sine \in UnitSines,
            c \in CubeRootHalves}
        \cup {FillerProbe(i, t, r) :
                i \in ProbeIndices(FILLER_COUNT), t \in QuarterDraws,
                r \in QuarterDraws}

NotGenerated ==
    [config |-> -1, count |-> 0,
     probe |-> [loop |-> "none", index |-> 0, yNum |-> 0, yDen |-> 1]]

\* One call with PARTICLE_COUNT = config: both loops push one particle per
\* iteration.
generateParticles(config) ==
    /\ \E probe \in Probes(config) :
          generated' = [config |-> config,
                        count |-> LoopRuns(config - FILLER_COUNT)
                                    + LoopRuns(FILLER_COUNT),
                        probe |-> probe]
    /\ UNCHANGED <<sceneVars, particleVars, panelVars, controllerVars,
                   cameraVars, easeVars>>

GeneratorInit == generated = NotGenerated

(***************************************************************************)
(* Scene and StarShape: the eased camera angles and the eased star scale.  *)
(***************************************************************************)
\* Longest run of eased frames, in tenths of a second.
MaxEaseTime == 4

\* Math.PI and the polar limits Math.PI / 3 and Math.PI / 1.8 handed to
\* OrbitControls, in thousandths of a radian.
PI_MILLI == 3142
MIN_POLAR == 1047
MAX_POLAR == 1745

\* The interpolation factors the callbacks pass to MathUtils.lerp, in
\* thousandths: the camera's and the star's.  Neither callback reads the
\* frame time.
CAMERA_EASE == 50
STAR_EASE == 100

CameraAlpha(delta) == CAMERA_EASE

StarAlpha(delta) == STAR_EASE

\* MathUtils.lerp(a, b, alpha) with alpha in thousandths.
LerpMilli(a, b, alpha) == a + Trunc((b - a) * alpha, 1000)

\* handState.position.x * Math.PI
TargetAzimuth(position) == Trunc(position.x * PI_MILLI, 100)

\* Math.PI / 2 - handState.position.y * 0.5
TargetPolar(position) == PI_MILLI \div 2 - position.y * 5

\* The angles the frame sets with factor alpha: SCATTERED eases both toward
\* the hand position, ASSEMBLED the azimuth while a hand is active, and the
\* controls keep the polar angle within their limits.
EaseCamera(mode, hand, current, alpha) ==
    IF mode = "SCATTERED"
    THEN [azimuth |-> LerpMilli(current.azimuth,
                                TargetAzimuth(hand.position), alpha),
          polar |-> Clamp(LerpMilli(current.polar,
                                    TargetPolar(hand.position), alpha),
                          MIN_POLAR, MAX_POLAR)]
    ELSE IF mode = "ASSEMBLED" /\ hand.gesture # "NONE"
    THEN [current EXCEPT
            !.azimuth = LerpMilli(current.azimuth,
                                  TargetAzimuth(hand.position), alpha)]
    ELSE current

\* targetScale: 1 in ASSEMBLED, 0.01 otherwise.
StarTarget(mode) == IF mode = "ASSEMBLED" THEN 1000 ELSE 10

\* The star's callback with factor alpha.
EaseStar(mode, current, alpha) == LerpMilli(current, StarTarget(mode), alpha)

\* One rendered frame: Scene's callback and the star's callback both run.
EasedFrame(delta) ==
    /\ time + delta <= MaxEaseTime
    /\ SceneFrame(delta)
    /\ orbit' = EaseCamera(appState, handState, orbit, CameraAlpha(delta))
    /\ starScale' = EaseStar(appState, starScale, StarAlpha(delta))

\* The camera of the Canvas sits at [0, 0, 18] and looks at the origin; a
\* mesh is created with scale 1.
EaseInit ==
    /\ orbit = [azimuth |-> 0, polar |-> PI_MILLI \div 2]
    /\ starScale = 1000

(***************************************************************************)
(* Initial states and specifications.                                      *)
(***************************************************************************)
\* App's and Scene's initial state; the effect runs once after mount.
SceneInit ==
    /\ appState = "ASSEMBLED"
    /\ handState = NoHand
    /\ photos = <<>>
    /\ activeIndex = 0
    /\ lastSwitchTime = 0
    /\ time = 0
    /\ autoRotate = FALSE
    /\ cameraDrive = "none"
    /\ effectPending = TRUE
    /\ evalFrom = "none"

\* initMesh seeds every instance at its tree position.
ParticlesInit(data) ==
    /\ particles = data
    /\ livePos = [i \in DOMAIN data |-> data[i].initialPos]
    /\ resolved = NoResolve

SampleData ==
    [i \in 1..NumParticles |->
        [type |-> "SPHERE", initialPos |-> <<2, -5, 0>>,
         scatterPos |-> <<-11, 11, 0>>]]

\* The scene: gestures, uploads, the gesture effect and Scene's frames.  No
\* action of it reads the particle data, which stays at one sample.
Init ==
    /\ SceneInit
    /\ ParticlesInit(SampleData)
    /\ PanelsInit
    /\ ControllerInit
    /\ CameraInit
    /\ GeneratorInit
    /\ EaseInit

Next ==
    \/ \E s \in HandControlStates : HandUpdate(s) /\ UNCHANGED sceneRest
    \/ \E k \in 0..MaxFiles : handleFileUpload(k) /\ UNCHANGED sceneRest
    \/ GestureEffect /\ UNCHANGED sceneRest
    \/ \E d \in Deltas : SceneFrame(d) /\ UNCHANGED sceneRest

Spec == Init /\ [][Next]_vars

\* The particles: the mode is driven by gestures with the hand at rest and
\* by the upload of one photo; every frame runs the Particles callback.
InitParticles ==
    /\ SceneInit
    /\ \E data \in Datasets : ParticlesInit(data)
    /\ PanelsInit
    /\ ControllerInit
    /\ CameraInit
    /\ GeneratorInit
    /\ EaseInit

NextParticles ==
    \/ \E g \in GestureTypes :
          HandUpdate([NoHand EXCEPT !.gesture = g]) /\ UNCHANGED sceneRest
    \/ photos = <<>> /\ handleFileUpload(1) /\ UNCHANGED sceneRest
    \/ GestureEffect /\ UNCHANGED sceneRest
    \/ \E d \in Steps :
          ParticlesFrame(d) /\ UNCHANGED <<panelVars, controllerVars, cameraVars, generated, easeVars>>

SpecParticles == InitParticles /\ [][NextParticles]_vars

\* The end-to-end scenario: one photo is uploaded, then FIST, OPEN_PALM and
\* PINCH arrive in this order, each after the effect has settled on the one
\* before; frames run at any point in between.
ScriptNext(gesture) ==
    IF gesture = "NONE" THEN "FIST"
    ELSE IF gesture = "FIST" THEN "OPEN_PALM"
    ELSE "PINCH"

ScenarioUpload ==
    /\ photos = <<>>
    /\ handState.gesture = "NONE"
    /\ handleFileUpload(1)

ScenarioDeliver(s) ==
    /\ Len(photos) = 1
    /\ ~effectPending
    /\ handState.gesture # "PINCH"
    /\ s.gesture = ScriptNext(handState.gesture)
    /\ HandUpdate(s)

NextScenario ==
    \/ ScenarioUpload /\ UNCHANGED sceneRest
    \/ \E s \in HandControlStates : ScenarioDeliver(s) /\ UNCHANGED sceneRest
    \/ GestureEffect /\ UNCHANGED sceneRest
    \/ \E d \in Deltas : SceneFrame(d) /\ UNCHANGED sceneRest

SpecScenario == Init /\ [][NextScenario]_vars

\* The photo panels: uploads of one photo at a time, gestures with the hand
\* at rest, the gesture effect, panels mounting and the panels' frames.
NextPhotos ==
    \/ UploadPhoto /\ UNCHANGED <<particleVars, controllerVars, cameraVars, generated, easeVars>>
    \/ PanelMount /\ UNCHANGED <<particleVars, controllerVars, cameraVars, generated, easeVars>>
    \/ \E g \in GestureTypes :
          HandUpdate([NoHand EXCEPT !.gesture = g]) /\ UNCHANGED sceneRest
    \/ GestureEffect /\ UNCHANGED sceneRest
    \/ \E d \in Steps, cam \in Cameras :
          PanelsFrame(d, cam)
            /\ UNCHANGED <<particleVars, controllerVars, cameraVars, generated, easeVars>>

SpecPhotos == Init /\ [][NextPhotos]_vars

\* The hand controller: vision results arrive and are handled, before and
\* after the component is torn down.
NextController ==
    \/ \E res \in VisionResults :
          Detect(res)
            /\ UNCHANGED <<particleVars, panelVars, cameraVars, generated, easeVars>>
    \/ onResults /\ UNCHANGED <<particleVars, panelVars, cameraVars, generated, easeVars>>
    \/ Teardown /\ UNCHANGED <<particleVars, panelVars, generated, easeVars>>

SpecController == Init /\ [][NextController]_vars

\* The controller's life: the camera is acquired, the prediction loop sends
\* frames whose results are handled, and the view is torn down at any point.
NextLifecycle ==
    \/ CameraGranted /\ UNCHANGED <<particleVars, panelVars, generated, easeVars>>
    \/ CameraDenied /\ UNCHANGED <<particleVars, panelVars, generated, easeVars>>
    \/ MetadataLoaded /\ UNCHANGED <<particleVars, panelVars, generated, easeVars>>
    \/ PredictFrame /\ UNCHANGED <<particleVars, panelVars, generated, easeVars>>
    \/ \E res \in VisionResults :
          /\ loop = "sending"
          /\ Detect(res)
          /\ loop' = "resolving"
          /\ UNCHANGED <<stream, cameraReady, particleVars, panelVars,
                         generated, easeVars>>
    \/ onResults /\ UNCHANGED <<particleVars, panelVars, cameraVars, generated, easeVars>>
    \/ SendSettles /\ UNCHANGED <<particleVars, panelVars, generated, easeVars>>
    \/ Teardown /\ UNCHANGED <<particleVars, panelVars, generated, easeVars>>

SpecLifecycle == Init /\ [][NextLifecycle]_vars

\* The eased camera and star: gestures at both hand positions, the upload of
\* one photo, the gesture effect and the rendered frames.
EaseRest == <<particleVars, panelVars, controllerVars, cameraVars, generated>>

NextEasing ==
    \/ \E g \in GestureTypes, p \in Positions :
          /\ HandUpdate([NoHand EXCEPT !.gesture = g, !.position = p])
          /\ UNCHANGED sceneRest
    \/ photos = <<>> /\ handleFileUpload(1) /\ UNCHANGED sceneRest
    \/ GestureEffect /\ UNCHANGED sceneRest
    \/ \E d \in Deltas : EasedFrame(d) /\ UNCHANGED EaseRest

SpecEasing == Init /\ [][NextEasing]_vars

\* generateParticles under each configured particle count.
NextGenerate == \E config \in ConfiguredCounts : generateParticles(config)

SpecGenerate == Init /\ [][NextGenerate]_vars

(***************************************************************************)
(* The scene mode state machine.                                           *)
(***************************************************************************)
\* C1: an evaluation of the gesture handler with gesture FIST leaves the mode
\* ASSEMBLED, from every mode and with any number of photo panels.
C1_FistAssembles ==
    [][(GestureEffect /\ handState.gesture = "FIST")
         => appState' = "ASSEMBLED"]_vars

C1_Witness ==
    /\ evalFrom = "FOCUSED"
    /\ handState.gesture = "FIST"
    /\ Len(photos) > 0
    /\ appState = "ASSEMBLED"

\* C2: an evaluation with gesture OPEN_PALM in ASSEMBLED or FOCUSED leaves the
\* mode SCATTERED, and with OPEN_PALM the two rules never leave the mode in
\* ASSEMBLED or FOCUSED.
C2_PalmScatters ==
    [][(GestureEffect /\ handState.gesture = "OPEN_PALM")
         => /\ appState \in {"ASSEMBLED", "FOCUSED"} => appState' = "SCATTERED"
            /\ appState' \notin {"ASSEMBLED", "FOCUSED"}]_vars

C2_Witness ==
    /\ evalFrom = "FOCUSED"
    /\ handState.gesture = "OPEN_PALM"
    /\ appState = "SCATTERED"

\* C3: an evaluation with gesture PINCH in SCATTERED with at least one photo
\* panel leaves the mode FOCUSED.
C3_PinchFocuses ==
    [][(GestureEffect /\ handState.gesture = "PINCH"
          /\ appState = "SCATTERED" /\ Len(photos) >= 1)
         => appState' = "FOCUSED"]_vars

C3_Witness ==
    /\ evalFrom = "SCATTERED"
    /\ handState.gesture = "PINCH"
    /\ Len(photos) = 1
    /\ appState = "FOCUSED"

\* C4: an evaluation with gesture PINCH in SCATTERED with no photo panel is a
\* no-op: the mode stays SCATTERED and the active index is unchanged.
C4_PinchWithoutPanels ==
    [][(GestureEffect /\ handState.gesture = "PINCH"
          /\ appState = "SCATTERED" /\ Len(photos) = 0)
         => (appState' = "SCATTERED" /\ activeIndex' = activeIndex)]_vars

C4_Witness ==
    /\ evalFrom = "SCATTERED"
    /\ handState.gesture = "PINCH"
    /\ photos = <<>>
    /\ appState = "SCATTERED"
    /\ ~effectPending

\* C5: an evaluation with gesture NONE leaves the mode unchanged, in every
\* mode and for every panel count.
C5_NoneKeepsMode ==
    [][(GestureEffect /\ handState.gesture = "NONE")
         => appState' = appState]_vars

C5_Witness ==
    /\ evalFrom = "FOCUSED"
    /\ handState.gesture = "NONE"
    /\ appState = "FOCUSED"

\* C6: with one photo panel, FIST then OPEN_PALM then PINCH, each evaluated
\* before the next arrives, end in FOCUSED with active index 0, whatever
\* frames run in between.
C6_Scenario ==
    (handState.gesture = "PINCH" /\ ~effectPending)
        => (appState = "FOCUSED" /\ activeIndex = 0)

C6_Witness ==
    /\ handState.gesture = "PINCH"
    /\ ~effectPending
    /\ Len(photos) = 1
    /\ appState = "FOCUSED"
    /\ activeIndex = 0
    /\ handState.rotation = -5
    /\ time = MaxTime

(***************************************************************************)
(* The photo carousel.                                                     *)
(***************************************************************************)
\* C7: in a frame with the carousel eligible (FOCUSED, n > 1 panels, cooldown
\* elapsed) a rotation below -0.4 sets the index to (i - 1 + n) mod n, one
\* above +0.4 to (i + 1) mod n, and one in [-0.4, +0.4] leaves it.
C7_CarouselStep ==
    [][\A d \in Deltas :
         (/\ SceneFrame(d)
          /\ appState = "FOCUSED"
          /\ Len(photos) > 1
          /\ (time + d) - lastSwitchTime > 8)
         => activeIndex' =
              IF handState.rotation < -4
              THEN (activeIndex - 1 + Len(photos)) % Len(photos)
              ELSE IF handState.rotation > 4
              THEN (activeIndex + 1) % Len(photos)
              ELSE activeIndex]_vars

\* Index 0 with 3 panels and rotation -0.5 has become 2: the only switch so
\* far (a second one needs the clock beyond twice the cooldown).
C7_Witness ==
    /\ appState = "FOCUSED"
    /\ Len(photos) = 3
    /\ handState.rotation = -5
    /\ lastSwitchTime = time
    /\ time > 0
    /\ time <= 2 * COOLDOWN
    /\ activeIndex = 2

\* C8 as stated: the active index i satisfies 0 <= i < panelCount in every
\* reachable state, also before any photo has been uploaded.
C8_Original == 0 <= activeIndex /\ activeIndex < Len(photos)

\* C8: the active index i is an integer with 0 <= i, and i < panelCount
\* once a photo panel exists; with no panel it is 0.
C8_IndexInRange ==
    /\ activeIndex \in Nat
    /\ IF photos = <<>> THEN activeIndex = 0 ELSE activeIndex < Len(photos)

C8_Witness ==
    /\ Len(photos) = 3
    /\ activeIndex = 2
    /\ lastSwitchTime > COOLDOWN

\* C9: the active index changes only in a frame run in FOCUSED with more than
\* one panel; every other step (other frames, mode transitions, the entry
\* into FOCUSED, uploads, hand updates) leaves it unchanged.
C9_IndexChangesOnlyInFocus ==
    [][activeIndex' # activeIndex
         => /\ appState = "FOCUSED"
            /\ Len(photos) > 1
            /\ \E d \in Deltas : SceneFrame(d)]_vars

\* FOCUSED has just been entered from SCATTERED with the index where an
\* earlier stay in FOCUSED left it.
C9_Witness ==
    /\ evalFrom = "SCATTERED"
    /\ appState = "FOCUSED"
    /\ activeIndex = 2

(***************************************************************************)
(* The layout resolver.                                                    *)
(***************************************************************************)
\* C10: getTargetPosition returns the particle's initialPos in ASSEMBLED and
\* its scatterPos in SCATTERED and FOCUSED, for every particle on every call
\* of a frame, and the particle data is never modified.
C10_TargetByMode ==
    [][/\ particles' = particles
       /\ (\E d \in Deltas : ParticlesFrame(d))
            => /\ resolved'.mode = appState
               /\ \A i \in DOMAIN particles :
                    resolved'.targets[i] =
                        IF appState = "ASSEMBLED"
                        THEN particles[i].initialPos
                        ELSE particles[i].scatterPos]_vars

C10_Witness ==
    /\ resolved.mode = "FOCUSED"
    /\ particles[1].type = "LIGHT"
    /\ resolved.targets[1] = particles[1].scatterPos
    /\ resolved.targets[1] # particles[1].initialPos
    /\ livePos[1] # particles[1].initialPos

(***************************************************************************)
(* The hand controller.                                                    *)
(***************************************************************************)
\* The hand of the result that onResults handled last.
SeenHand == results.hands[1]

\* The horizontal mirror image of a landmark set: x -> 1 - x.
Mirror(landmarks) ==
    [l \in DOMAIN landmarks |-> Pt(100 - landmarks[l].x, landmarks[l].y)]

\* C12: a hand whose thumb tip is less than 0.05 from its index tip, distance
\* 0 included, is emitted as PINCH however many fingers are extended.
C12_PinchFirst ==
    [][(onResults /\ active /\ HasHand(results)
          /\ SqDist(SeenHand[4], SeenHand[8]) < 25)
         => handState'.gesture = "PINCH"]_vars

C12_Witness ==
    /\ delivered /\ active /\ HasHand(results)
    /\ SeenHand[4] = SeenHand[8]
    /\ \A f \in Fingers : SeenHand[f] = StretchedTip(f)
    /\ handState.gesture = "PINCH"

\* C13: a hand whose thumb tip is at least 0.05 from its index tip is emitted
\* as OPEN_PALM with 3 or 4 extended fingers, FIST with 0 or 1 and NONE with
\* exactly 2, where a finger is extended when its tip is more than 0.05
\* farther from the wrist than its PIP joint.
C13_CountDecides ==
    [][(onResults /\ active /\ HasHand(results)
          /\ SqDist(SeenHand[4], SeenHand[8]) >= 25)
         => LET n == ExtendedCount(SeenHand)
                g == handState'.gesture
            IN  /\ g \in {"OPEN_PALM", "FIST", "NONE"}
                /\ g = "OPEN_PALM" <=> n \in {3, 4}
                /\ g = "FIST" <=> n \in {0, 1}
                /\ g = "NONE" <=> n = 2]_vars

C13_Witness ==
    /\ delivered /\ active /\ HasHand(results)
    /\ SqDist(SeenHand[4], SeenHand[8]) = 25
    /\ SeenHand[8] = StretchedTip(8)
    /\ SeenHand[12] = Pt(50, 55)
    /\ SeenHand[16] = StretchedTip(16)
    /\ SeenHand[20] = CurledTip(20)
    /\ handState.gesture = "NONE"

\* C14: a result without a hand, its landmark list missing or empty, is
\* emitted as the pose {NONE, (0, 0), 0}, whatever the pose before.
C14_NoHandPose ==
    [][(onResults /\ active /\ ~HasHand(results)) => handState' = NoHand]_vars

C14_Witness ==
    /\ delivered /\ active
    /\ results = [kind |-> "list", hands |-> <<>>]
    /\ handState = NoHand

\* C15: the mirror image of the hand that was emitted last would be emitted
\* with the negated rotation.
C15_MirrorNegates ==
    (delivered /\ active /\ HasHand(results))
        => HandPose(Mirror(SeenHand)).rotation = -handState.rotation

(***************************************************************************)
(* The carousel cooldown and the camera.                                   *)
(***************************************************************************)
\* C19: the active index changes only in a step whose clock time is more
\* than 0.8 s past the last switch, and such a step sets the last-switch
\* time to its clock time; the last-switch time is never ahead of the clock.
C19_CooldownBetweenSwitches ==
    [][/\ activeIndex' # activeIndex
            => /\ time' - lastSwitchTime > 8
               /\ lastSwitchTime' = time'
       /\ lastSwitchTime' <= time']_vars

\* With two panels the index is back at 0, so it has changed at least twice,
\* the last time in the frame that ended at the current clock time, with the
\* hand still rotated beyond the threshold.
C19_Witness ==
    /\ appState = "FOCUSED"
    /\ Len(photos) = 2
    /\ activeIndex = 0
    /\ lastSwitchTime = time
    /\ time >= 18
    /\ handState.rotation > THRESHOLD

\* C20: a frame run in ASSEMBLED leaves auto-rotation enabled exactly when
\* the gesture is NONE; a frame run in FOCUSED leaves it disabled and does
\* not set the camera angles from the hand position.
C20_CameraByMode ==
    [][(\E d \in Deltas : SceneFrame(d))
         => /\ appState = "ASSEMBLED"
                => (autoRotate' <=> handState.gesture = "NONE")
            /\ appState = "FOCUSED"
                => (~autoRotate' /\ cameraDrive' = "none")]_vars

\* A frame in FOCUSED has just switched the panel with the hand away from
\* the centre.
C20_Witness ==
    /\ appState = "FOCUSED"
    /\ lastSwitchTime = time
    /\ time > 0
    /\ handState.position.x = 100
    /\ ~autoRotate
    /\ cameraDrive = "none"

(***************************************************************************)
(* The easing of live values.                                              *)
(***************************************************************************)
\* C18: in every step each coordinate of each particle's live position ends
\* between its old value and the target of the mode the step ran in: it gets
\* no farther from the target and does not pass beyond it.
C18_NoOvershoot ==
    [][\A i \in DOMAIN particles, k \in 1..3 :
          LET target == getTargetPosition(particles[i], appState)[k]
              old == livePos[i][k]
              new == livePos'[i][k]
          IN  /\ old <= target => (old <= new /\ new <= target)
              /\ old >= target => (target <= new /\ new <= old)]_vars

(***************************************************************************)
(* The photo panels.                                                       *)
(***************************************************************************)
\* C11: a panel frame run in FOCUSED resolves every panel other than the
\* active one to its scatter slot with scale 1.0.
C11_OthersScatterInFocus ==
    panelTargets.mode = "FOCUSED"
        => \A i \in DOMAIN panelTargets.targets :
              i - 1 # panelTargets.active
                  => /\ panelTargets.targets[i].kind = "random"
                     /\ panelTargets.targets[i].scale = 100

(***************************************************************************)
(* The particle generator.                                                 *)
(***************************************************************************)
\* C16: generateParticles returns as many particles as the configured
\* count, for every configured count, 0 included.
C16_CountAsConfigured ==
    generated # NotGenerated => generated.count = generated.config

\* C17: the vertical tree coordinate y of every generated particle satisfies
\* -TREE_HEIGHT / 2 <= y <= TREE_HEIGHT / 2.
C17_WithinTreeHeight ==
    generated # NotGenerated
        => LET y == generated.probe
           IN  /\ -TREE_HEIGHT * y.yDen <= 2 * y.yNum
               /\ 2 * y.yNum <= TREE_HEIGHT * y.yDen

(***************************************************************************)
(* Implicit properties of the mode and of the camera.                      *)
(***************************************************************************)
\* Append-only: every panel of before is still there, at its place.
IsPrefix(p, q) == Len(p) <= Len(q) /\ \A i \in DOMAIN p : q[i] = p[i]

\* C24: FOCUSED is never held with zero panels; it is entered only by an
\* evaluation with PINCH in SCATTERED with at least one panel, and no step
\* removes or reorders panels.
C24_FocusedHasPanel ==
    [][/\ appState = "FOCUSED" => Len(photos) > 0
       /\ appState' = "FOCUSED" => Len(photos') > 0
       /\ (appState # "FOCUSED" /\ appState' = "FOCUSED")
            => /\ GestureEffect
               /\ handState.gesture = "PINCH"
               /\ appState = "SCATTERED"
               /\ Len(photos) > 0
       /\ IsPrefix(photos, photos')]_vars

\* Photos were uploaded while FOCUSED was held with PINCH.
C24_Witness ==
    /\ appState = "FOCUSED"
    /\ handState.gesture = "PINCH"
    /\ Len(photos) = MaxPhotos
    /\ ~effectPending
    /\ time > 0

\* C25: the mode an evaluation leaves is a fixed point for the same gesture
\* and panel count: evaluating again in it changes nothing.
C25_FixedPoint ==
    [][GestureEffect
         => NextAppState(handState.gesture, appState', Len(photos)) = appState']_vars

\* The effect ran again after the transition into FOCUSED and left it.
C25_Witness ==
    /\ evalFrom = "FOCUSED"
    /\ appState = "FOCUSED"
    /\ handState.gesture = "PINCH"
    /\ ~effectPending

\* C26: a frame run in SCATTERED leaves auto-rotation disabled.
C26_NoAutoRotateInScattered ==
    [][((\E d \in Deltas : SceneFrame(d)) /\ appState = "SCATTERED")
         => ~autoRotate']_vars

(***************************************************************************)
(* The teardown of the hand controller.                                    *)
(***************************************************************************)
\* C21: once the view is torn down no predict frame is requested and no
\* send is started, an acquired camera stream has its tracks stopped, and
\* no pose reaches the application.
C21_StoppedAfterTeardown ==
    [][~active'
         => /\ loop' # "scheduled"
            /\ stream' # "live"
            /\ ~active => /\ handState' = handState
                          /\ loop' = "sending" => loop = "sending"]_vars

(***************************************************************************)
(* The spiral slot of a mounted panel.                                     *)
(***************************************************************************)
\* C22: no step changes the spiral parameter of a panel that is mounted:
\* neither a mode transition, nor a frame, nor a further upload.
C22_SpiralSlotFixed ==
    [][\A i \in DOMAIN slots :
         i \in DOMAIN slots' /\ slots'[i].treeT = slots[i].treeT]_vars

(***************************************************************************)
(* Frame-rate independence of the eased quantities.                        *)
(***************************************************************************)
\* C23: the camera angles and the star's scale advance in a frame by an
\* interpolation factor proportional to the frame time: a frame of time d
\* eases by d times the factor of a frame of unit time.
C23_EasingScalesWithFrameTime ==
    [][\A d \in Deltas :
         EasedFrame(d)
           => /\ orbit' = EaseCamera(appState, handState, orbit,
                                     d * CameraAlpha(1))
              /\ starScale' = EaseStar(appState, starScale,
                                       d * StarAlpha(1))]_vars

====
